---- MODULE Spec2Model ----
(***************************************************************************)
(* Chorus API: the upload -> preflight -> normalise -> detect pipeline of  *)
(* main.py, the AudioProcessor of utils/audio_processor.py and the         *)
(* FileManager of utils/file_manager.py.                                   *)
(*                                                                         *)
(* Durations are rationals frames/sr, held as the pair <<frames, sr>> and  *)
(* compared by cross-multiplication.  A linear RMS amplitude is 10^(-e),   *)
(* held as the exponent e, with a flag for an all-zero signal (rms = 0).   *)
(***************************************************************************)
EXTENDS Integers, Sequences, FiniteSets, TLC

\* ------------------------------------------------------------------ bounds
NumReq == 2
MaxWorkers == 2
MaxFrames == 4
MaxRate == 2
MaxSeconds == 2
MaxExp == 3

\* ------------------------------------------------- constants of the program
EndpointMinSeconds == 30
EndpointMaxSeconds == 900
EndpointMinSampleRate == 16000
EndpointMaxSampleRate == 192000
EndpointSilenceDbfs == -45
RmsFloorExp == 12
min_duration == 10
max_duration == 120
max_file_size == 52428800

None == "None"

\* ------------------------------------------------------- preflight_validate
\* The guard of the logarithm set at 1e-2 in place of 1e-12.
RmsDbfsShallowFloor(rms_zero, rms_e) ==
    IF rms_zero \/ rms_e > 2 THEN -40 ELSE -20 * rms_e

\* rms_dbfs = 20 * log10(max(rms, 1e-12)) for rms = 10^(-e), or rms = 0.
RmsDbfs(rms_zero, rms_e) ==
    IF rms_zero \/ rms_e > RmsFloorExp THEN -20 * RmsFloorExp ELSE -20 * rms_e

\* Lines 61-62 and 80: sf_info.format or None, sf_info.subtype or None.
OrNone(name) == IF name = "" THEN None ELSE name

\* info.update({...}) : the metrics of a decodable asset.  The RMS of a signal
\* without samples is taken as 0 (line 76: "if y_mono.size > 0 else 0.0").
Metrics(asset) ==
    [populated |-> TRUE,
     duration_sec |-> <<asset.frames, asset.sr>>,
     samplerate |-> asset.sr,
     channels |-> asset.channels,
     rms_dbfs |-> RmsDbfs(asset.rms_zero \/ asset.frames = 0, asset.rms_e),
     format |-> OrNone(asset.format),
     codec |-> OrNone(asset.subtype)]

\* info = {} : nothing measured yet.
EmptyInfo ==
    [populated |-> FALSE, duration_sec |-> <<0, 1>>, samplerate |-> 0,
     channels |-> 0, rms_dbfs |-> 0, format |-> None, codec |-> None]

\* duration_sec < float(seconds), duration_sec > float(seconds)
DurationLess(d, seconds) == d[1] < seconds * d[2]
DurationMore(d, seconds) == d[1] > seconds * d[2]

Err(type, message, metrics) == [type |-> type, message |-> message, metrics |-> metrics]
NoErr == Err(None, None, "absent")

TooShortRule(info, cfg) == DurationLess(info.duration_sec, cfg.min_seconds)
\* The too-long rule with >= in place of >.
TooLongRuleInclusive(info, cfg) ==
    ~cfg.long_audio_mode /\ ~DurationLess(info.duration_sec, cfg.max_seconds)

TooLongRule(info, cfg) ==
    ~cfg.long_audio_mode /\ DurationMore(info.duration_sec, cfg.max_seconds)
SilentRule(info, cfg) == info.rms_dbfs < cfg.silence_rms_dbfs_threshold
\* The mono rule without its test of allow_downmix.
MonoRuleNoDownmix(info, cfg) == cfg.mono_required /\ info.channels > 1

MonoRule(info, cfg) == cfg.mono_required /\ info.channels > 1 /\ ~cfg.allow_downmix
\* The sample-rate rule with the bounds themselves outside the range.
SampleRateRuleInclusive(info, cfg) ==
    /\ info.samplerate # 0
    /\ (info.samplerate <= cfg.min_sample_rate \/ info.samplerate >= cfg.max_sample_rate)
    /\ ~cfg.allow_resample

SampleRateRule(info, cfg) ==
    /\ info.samplerate # 0
    /\ (info.samplerate < cfg.min_sample_rate \/ info.samplerate > cfg.max_sample_rate)
    /\ ~cfg.allow_resample

\* The cascade with the loudness rule moved in front of the duration rules.
RuleCascadeSilentFirst(info, cfg) ==
    IF SilentRule(info, cfg) THEN
        Err("Audio.SilentOrLowRMS", "Audio loudness below threshold", "attached")
    ELSE IF TooShortRule(info, cfg) THEN
        Err("Audio.TooShort", "Audio duration is shorter than required minimum", "attached")
    ELSE IF TooLongRule(info, cfg) THEN
        Err("Audio.TooLong",
            "Audio duration exceeds maximum allowed; enable long_audio_mode or segment",
            "attached")
    ELSE IF MonoRule(info, cfg) THEN
        Err("Audio.MonoRequired",
            "Mono required but multi-channel provided and downmix disabled", "attached")
    ELSE IF SampleRateRule(info, cfg) THEN
        Err("Audio.SampleRateUnsupported",
            "Sample rate out of supported range and resampling disabled", "attached")
    ELSE NoErr

\* The rule cascade of lines 91-155, in the order of the code.
RuleCascade(info, cfg) ==
    IF TooShortRule(info, cfg) THEN
        Err("Audio.TooShort", "Audio duration is shorter than required minimum", "attached")
    ELSE IF TooLongRule(info, cfg) THEN
        Err("Audio.TooLong",
            "Audio duration exceeds maximum allowed; enable long_audio_mode or segment",
            "attached")
    ELSE IF SilentRule(info, cfg) THEN
        Err("Audio.SilentOrLowRMS", "Audio loudness below threshold", "attached")
    ELSE IF MonoRule(info, cfg) THEN
        Err("Audio.MonoRequired",
            "Mono required but multi-channel provided and downmix disabled", "attached")
    ELSE IF SampleRateRule(info, cfg) THEN
        Err("Audio.SampleRateUnsupported",
            "Sample rate out of supported range and resampling disabled", "attached")
    ELSE NoErr

\* The text of the exception a failed decode raises.
DecodeError == "decode error"

\* The except clause returning no error record.
PreflightErrorSwallowed(message) ==
    [ok |-> FALSE, info |-> EmptyInfo, err |-> NoErr, reason |-> None]

\* Lines 157-164: an exception of the probe is caught and returned as an error.
PreflightError(message) ==
    [ok |-> FALSE, info |-> EmptyInfo,
     err |-> Err("Audio.PreflightError", message, "attached"),
     reason |-> "Preflight validation error: " \o message]

\* The validator without its existence test: a missing file reaches the probe.
preflight_validate_unchecked(exists, asset, cfg) ==
    IF ~exists \/ ~asset.decodable THEN PreflightError(DecodeError)
    ELSE LET info == Metrics(asset)
             err == RuleCascade(info, cfg)
         IN  [ok |-> err = NoErr, info |-> info, err |-> err, reason |-> err.message]

\* preflight_validate(input_path, **cfg) -> (ok, info, error); reason is the value
\* the call leaves in self.last_error_reason.
preflight_validate(exists, asset, cfg) ==
    IF ~exists THEN
        [ok |-> FALSE, info |-> EmptyInfo,
         err |-> Err("File.NotFound", "Uploaded file does not exist on server", "absent"),
         reason |-> "Uploaded file does not exist on server"]
    ELSE IF ~asset.decodable THEN PreflightError(DecodeError)
    ELSE LET info == Metrics(asset)
             err == RuleCascade(info, cfg)
         IN  [ok |-> err = NoErr, info |-> info, err |-> err, reason |-> err.message]

\* ------------------------------------------------------------- FileManager
Requests == 1..NumReq

\* str(uuid.uuid4()): fixed-length identifiers, one per request, all distinct;
\* some share their first character and some do not.
IdFirst == <<"a", "a", "b", "b">>
IdSecond == <<"1", "2", "1", "2">>
uuid4(r) == <<IdFirst[r], IdSecond[r]>>

upload_dir == "uploads"
output_dir == "outputs"
temp_dir == "temp"
Directories == <<upload_dir, output_dir, temp_dir>>

valid_extensions == {".mp3", ".wav", ".m4a", ".flac", ".aac", ".ogg"}

\* str.lower() on ASCII text, character by character.
UpperLetters == "ABCDEFGHIJKLMNOPQRSTUVWXYZ"
LowerLetters == "abcdefghijklmnopqrstuvwxyz"
UpperSet == {SubSeq(UpperLetters, i, i) : i \in 1..26}
ToLower ==
    [c \in UpperSet |->
        SubSeq(LowerLetters, CHOOSE i \in 1..26 : SubSeq(UpperLetters, i, i) = c,
                             CHOOSE i \in 1..26 : SubSeq(UpperLetters, i, i) = c)]
LowerChar(c) == IF c \in UpperSet THEN ToLower[c] ELSE c
LowerOf[s \in STRING] ==
    IF s = "" THEN "" ELSE LowerChar(SubSeq(s, 1, 1)) \o LowerOf[SubSeq(s, 2, Len(s))]
Lower(s) == LowerOf[s]

\* sub in s
Contains(s, sub) ==
    \E t \in {s} :
        \E i \in 1..(Len(t) - Len(sub) + 1) : SubSeq(t, i, i + Len(sub) - 1) = sub

\* A file name is its characters up to the extension, then the extension;
\* Suffix is Path(name).suffix.
Suffix(name) == IF name = <<>> THEN "" ELSE name[Len(name)]

\* The extension compared as the client spelled it.
is_valid_audio_file_exact(filename) ==
    IF filename = <<>> THEN FALSE ELSE Suffix(filename) \in valid_extensions

is_valid_audio_file(filename) ==
    IF filename = <<>> THEN FALSE ELSE Lower(Suffix(filename)) \in valid_extensions

PathOf(dir, name) == [dir |-> dir, name |-> name]
NoPath == PathOf("", <<>>)

\* The upload saved under the name the client gave it.
UploadPathClientName(filename, file_id) == PathOf(upload_dir, filename)

\* save_uploaded_file: upload_dir / f"{file_id}{file_extension}"
UploadPath(filename, file_id) ==
    PathOf(upload_dir, file_id \o <<Lower(Suffix(filename))>>)

\* get_output_path(f"{file_id}_chorus.wav")
get_output_path(name) == PathOf(output_dir, name)
OutputPath(file_id) == get_output_path(file_id \o <<"_chorus", ".wav">>)

\* Path(input_path).with_suffix('.wav')
WithSuffixWav(path) ==
    PathOf(path.dir, SubSeq(path.name, 1, Len(path.name) - 1) \o <<".wav">>)

\* directory.glob(f"{file_id}*") for an identifier without glob metacharacters
IsPrefix(x, name) == Len(x) <= Len(name) /\ SubSeq(name, 1, Len(x)) = x
Glob(files, dir, file_id) == {f \in files : f.dir = dir /\ IsPrefix(file_id, f.name)}

\* list_files_by_id(file_id)
list_files_by_id(files, file_id) ==
    UNION {Glob(files, Directories[i], file_id) : i \in 1..Len(Directories)}

DirIndex(dir) == CHOOSE i \in 1..Len(Directories) : Directories[i] = dir

\* cleanup_files(file_id): unlink every file the three globs visit, directory by
\* directory.  fault names the file whose unlink raises (NoPath: none does) and the
\* files of the same directory visited before it; the exception ends the call.
NoFault == [file |-> NoPath, before |-> {}]
Unlinked(visits, fault) ==
    IF fault.file \notin visits
    THEN [removed |-> visits, raised |-> FALSE]
    ELSE [removed |->
             {f \in visits : DirIndex(f.dir) < DirIndex(fault.file.dir)}
             \cup {f \in visits \cap fault.before :
                     f.dir = fault.file.dir /\ f # fault.file},
          raised |-> TRUE]
cleanup_files(files, file_id, fault) ==
    Unlinked(list_files_by_id(files, file_id), fault)

\* --------------------------------------------------- AudioProcessor helpers
supported_formats == {".mp3", ".wav", ".m4a", ".flac", ".aac", ".ogg"}

\* The texts of the exceptions the libraries and the system raise: of the
\* detector (two that hold a phrase the endpoint looks for in a reason and one
\* that holds none), of os.remove, of run_in_executor, of a write (of the
\* conversion and of the save), and of os.path.getsize.
DetectorErrors == {"input file does not exist", "[Errno 27] File too large", "boom"}
RemoveError == "[Errno 13] Permission denied"
DispatchError == "cannot schedule new futures after shutdown"
WriteError == "[Errno 28] No space left on device"
StatError == "[Errno 5] Input/output error"

\* Lines 307-309, 316 and 198-200: the reasons of the input checks.
FileTooLargeReason(file_size) ==
    "File too large: " \o ToString(file_size) \o " bytes. Max allowed is "
        \o ToString(max_file_size) \o " bytes"
UnsupportedFormatReason(ext) ==
    "Unsupported file format: " \o ext
        \o ". Supported: ['.aac', '.flac', '.m4a', '.mp3', '.ogg', '.wav']"
InvalidDurationReason(d) ==
    "Invalid duration: " \o ToString(d) \o ". Must be between "
        \o ToString(min_duration) \o " and " \o ToString(max_duration) \o " seconds"

\* Lines 265, 225, 292 and 323: the reasons that carry the text of an exception.
ChorusFailedReason(text) == "Chorus extraction failed: " \o text
UnexpectedReason(text) == "Unexpected error during extraction: " \o text
ConvertReason(text) == "Error converting to WAV: " \o text
ValidateReason(text) == "Error validating input file: " \o text

\* _validate_input_file: the reason it leaves, None when the file is accepted.
\* stat_raises: os.path.getsize of the existing file raises (lines 304, 321-324).
\* Every refusal leaves a reason, so the fallback of lines 191-192 ("Invalid
\* input file") is never taken.
validate_input_file(exists, stat_raises, file_size, ext) ==
    IF ~exists THEN "Uploaded file does not exist on server"
    ELSE IF stat_raises THEN ValidateReason(StatError)
    ELSE IF file_size > max_file_size THEN FileTooLargeReason(file_size)
    ELSE IF ext \notin supported_formats THEN UnsupportedFormatReason(ext)
    ELSE None

\* _validate_duration
validate_duration(d) == min_duration <= d /\ d <= max_duration

\* The path of the conversion returned whether or not the file was written.
ConvertedPathAlways(outcome, input, wav) == wav

\* _convert_to_wav lines 287 and 293: the path of the written file, or the
\* input path when the conversion raised.
ConvertedPath(outcome, input, wav) == IF outcome = "created" THEN wav ELSE input

\* A pool thread kept by a call that is over.
ReleaseNever(busy, r) == busy

\* concurrent.futures: a pool thread is free again when its call is over.
Release(busy, r) == busy \ {r}

\* _convert_to_wav, first branch: an input that is already WAV is returned as is.
AlreadyWav(path) == Lower(Suffix(path.name)) = ".wav"

\* The removal without the comparison of the two paths.
ShouldRemoveAnyWav(files, wav, input) == wav \in files

\* extract_chorus line 218: the converted file is removed when it is not the input.
ShouldRemoveWav(files, wav, input) == wav # input /\ wav \in files

\* The removal taking the upload along with the converted file.
RemovedWithInput(wav, input) == {wav, input}

\* extract_chorus line 219: os.remove(wav_path)
RemovedByExtract(wav, input) == {wav}

\* librosa.load(path, sr=None) with mono left at its default, True: the signal
\* keeps its native sample rate and is mixed down to one channel.
librosa_load(asset) == [samplerate |-> asset.sr, channels |-> 1]

\* The fates of sf.write (line 284): it writes the file, it raises before the
\* file exists, or it raises with the file already opened.
SfWrites == {"ok", "raises", "partial"}

\* _convert_to_wav(input_path) on a file holding asset: what the call did, the
\* path it returns, the sample rate and channel count of the file at that path,
\* and the reason it leaves.  write is the fate of sf.write: "ok", "raises", or
\* "partial" when it raises with the file already opened.
convert_to_wav(input, asset, write) ==
    LET same(outcome, reason) ==
            [outcome |-> outcome, path |-> input, samplerate |-> asset.sr,
             channels |-> asset.channels, reason |-> reason]
    IN  IF AlreadyWav(input) THEN same("same", None)
        ELSE IF ~asset.decodable \/ write = "raises"
             THEN same("failed", ConvertReason(IF asset.decodable THEN WriteError
                                               ELSE DecodeError))
        ELSE IF write = "partial" THEN same("partial", ConvertReason(WriteError))
        ELSE [outcome |-> "created", path |-> WithSuffixWav(input),
              samplerate |-> librosa_load(asset).samplerate,
              channels |-> librosa_load(asset).channels, reason |-> None]

\* ------------------------------------------------------ endpoint helpers
Some(v) == <<v>>
Nothing == <<>>

Response(status, type, message, start, out, id) ==
    [status |-> status, type |-> type, message |-> message,
     chorus_start_sec |-> start, output_file_path |-> out, file_id |-> id]
NoResp == Response(0, None, None, Nothing, NoPath, <<>>)

\* main.py 153-168: structured preflight errors to status codes.
PreflightStatus(err_type) == IF err_type = "Audio.TooLong" THEN 413 ELSE 422

\* The gate left open.
PreflightNeverRejects(ok, err) == FALSE

\* main.py 153: the gate between preflight and extraction.
PreflightRejects(ok, err) == ~ok /\ err # NoErr

DefaultReason == "Failed to extract chorus from audio file"

\* main.py 181: getattr(audio_processor, "last_error_reason", None) or default
ReasonRead(shared) == IF shared = None THEN DefaultReason ELSE shared

\* main.py 183-195: substring tests on the lower-cased reason, in this order.
StatusOfLowered[reason_lower \in STRING] ==
    IF Contains(reason_lower, "unsupported file format")
       \/ Contains(reason_lower, "invalid file type") THEN 400
    ELSE IF Contains(reason_lower, "file too large") THEN 413
    ELSE IF Contains(reason_lower, "does not exist") THEN 400
    ELSE IF Contains(reason_lower, "invalid duration") THEN 400
    ELSE IF Contains(reason_lower, "no chorus found") THEN 422
    ELSE 422

\* main.py 182: reason_lower = reason.lower()
ReasonStatus(reason) == StatusOfLowered[Lower(reason)]

ExtractionFailed(reason) ==
    Response(ReasonStatus(reason), "Extraction.Failed", reason, Nothing, NoPath, <<>>)

EndpointConfig(long_audio_mode, downmix, resample) ==
    [min_seconds |-> EndpointMinSeconds, max_seconds |-> EndpointMaxSeconds,
     long_audio_mode |-> long_audio_mode, mono_required |-> FALSE,
     allow_downmix |-> downmix, allow_resample |-> resample,
     min_sample_rate |-> EndpointMinSampleRate,
     max_sample_rate |-> EndpointMaxSampleRate,
     silence_rms_dbfs_threshold |-> EndpointSilenceDbfs]

\* ------------------------------------------------------------------ inputs
\* An audio file as soundfile and librosa see it; the container and the sample
\* encoding are those of a 16-bit WAV unless said otherwise.
Asset(decodable, frames, sr, channels, rms_zero, rms_e) ==
    [decodable |-> decodable, frames |-> frames, sr |-> sr, channels |-> channels,
     rms_zero |-> rms_zero, rms_e |-> rms_e, format |-> "WAV", subtype |-> "PCM_16"]
Corrupt == Asset(FALSE, 0, 1, 1, TRUE, 0)
\* A file for which soundfile names neither a container nor an encoding.
Unnamed == [Asset(TRUE, MaxFrames, 1, 1, FALSE, 0) EXCEPT !.format = "", !.subtype = ""]

\* Uploads offered to the endpoint: a 45 s stereo track at -20 dBFS, a 5 s clip,
\* a silent 20 minute track, an 8 kHz recording, and an undecodable file.
EndpointAssets ==
    {Asset(TRUE, 45 * 44100, 44100, 2, FALSE, 1),
     Asset(TRUE, 5 * 44100, 44100, 2, FALSE, 1),
     Asset(TRUE, 1200 * 44100, 44100, 2, TRUE, 0),
     Asset(TRUE, 45 * 8000, 8000, 1, FALSE, 1),
     Corrupt}

Filenames == {<<"song", ".MP3">>, <<"song", ".wav">>, <<"notes", ".txt">>, <<>>}
TargetDurations == {min_duration - 1, min_duration, max_duration + 1}
FileSizes == {1, max_file_size + 1}
Offsets == {0, 12}

\* Inputs of a direct call of AudioProcessor.extract_chorus: the suffix of the
\* input path and the duration argument.
DirectExtensions == {".wav", ".mp3", ".txt"}
DirectDurations == {min_duration - 1, min_duration, max_duration, max_duration + 1}

\* Inputs of the preflight specification.
PfAssets ==
    {Corrupt, Unnamed} \cup
    {Asset(TRUE, f, sr, ch, FALSE, e) :
        f \in 0..MaxFrames, sr \in 1..MaxRate, ch \in 1..2, e \in 0..MaxExp} \cup
    {Asset(TRUE, f, sr, ch, TRUE, 0) :
        f \in 0..MaxFrames, sr \in 1..MaxRate, ch \in 1..2}
\* Silence thresholds: the endpoint's, one just above the loudness floor, the
\* floor itself and one below it.
SilenceThresholds ==
    {EndpointSilenceDbfs, 1 - 20 * RmsFloorExp, -20 * RmsFloorExp, -1 - 20 * RmsFloorExp}

PfConfigs ==
    [min_seconds : 1..MaxSeconds, max_seconds : 1..MaxSeconds,
     long_audio_mode : BOOLEAN, mono_required : BOOLEAN,
     allow_downmix : BOOLEAN, allow_resample : BOOLEAN,
     min_sample_rate : 1..MaxRate, max_sample_rate : 1..MaxRate,
     silence_rms_dbfs_threshold : SilenceThresholds]

\* Inputs of an isolated call of _convert_to_wav.
ConvInputs ==
    [path : {PathOf(upload_dir, uuid4(1) \o <<e>>) : e \in {".wav", ".mp3", ".flac"}},
     asset : PfAssets, write : SfWrites]

\* ------------------------------------------------------------------- state
VARIABLES
    pc,                 \* where each request's handler stands
    duration,           \* the duration form field of each request
    input_path,         \* the path save_uploaded_file returned
    pf,                 \* the type of the preflight outcome ("Ok" when accepted)
    wav_path,           \* the path _convert_to_wav returned
    conv,               \* what _convert_to_wav did
    det,                \* the state of the detector call
    result,             \* chorus_start_sec as extract_chorus holds it
    resp,               \* the response sent
    own,                \* the last reason the request's own processing wrote
    stages,             \* the stage events of each request, in order
    upload_name,        \* the filename each upload carried
    io,                 \* the file and detector operations of each request, in order
    files,              \* the files of the three directories
    created,            \* every file ever created, with the request that made it
    last_error_reason,  \* audio_processor.last_error_reason, one shared object
    loop,               \* the requests whose coroutine occupies the event loop
    workers,            \* the requests whose detector call occupies a pool thread
    pool_size,          \* the number of threads of the loop's default executor
    orphan,             \* the pool call a thread took before its request was cancelled
    last,               \* the most recent operation, when it was a cleanup call
    call,               \* an isolated call of preflight_validate and its outcome
    conv_call           \* an isolated call of _convert_to_wav and its outcome

vars == <<pc, duration, input_path, pf, wav_path, conv, det, result, resp, own,
          stages, upload_name, io, files, created, last_error_reason, loop, workers,
          pool_size, orphan, last, call, conv_call>>

reqVars == <<pc, duration, input_path, pf, wav_path, conv, det, result, resp, own,
            stages, upload_name, io>>

\* asyncio's default executor: ThreadPoolExecutor(max_workers = min(32,
\* os.cpu_count() + 4)), a number of the machine; here a pool smaller than the
\* number of requests up to one that holds them all.
PoolSizes == 1..MaxWorkers

\* The pool threads that are taken: by a detector call that runs, or by a call
\* of the save that a thread took before its request was cancelled.
Busy == workers \cup {r \in Requests : orphan[r] # None}

\* A thread per call, whatever the load.
PoolUnbounded(busy, size) == TRUE

\* A call starts when fewer threads are busy than the pool has.
PoolHasFreeThread(busy, size) == Cardinality(busy) < size

NoOp == [op |-> "other", file_id |-> <<>>, removed |-> 0, raised |-> FALSE,
         returned |-> Nothing, repeat |-> FALSE]
NoCall == [made |-> FALSE, exists |-> FALSE, asset |-> Corrupt,
           cfg |-> EndpointConfig(FALSE, FALSE, FALSE),
           out |-> preflight_validate(FALSE, Corrupt, EndpointConfig(FALSE, FALSE, FALSE))]

NoConvCall ==
    [made |-> FALSE, path |-> NoPath, asset |-> Corrupt, write |-> "ok",
     out |-> convert_to_wav(NoPath, Corrupt, "ok")]

Init ==
    /\ pc = [r \in Requests |-> "idle"]
    /\ duration = [r \in Requests |-> 0]
    /\ input_path = [r \in Requests |-> NoPath]
    /\ pf = [r \in Requests |-> None]
    /\ wav_path = [r \in Requests |-> NoPath]
    /\ conv = [r \in Requests |-> None]
    /\ det = [r \in Requests |-> None]
    /\ result = [r \in Requests |-> Nothing]
    /\ resp = [r \in Requests |-> NoResp]
    /\ own = [r \in Requests |-> None]
    /\ stages = [r \in Requests |-> <<>>]
    /\ upload_name = [r \in Requests |-> <<>>]
    /\ io = [r \in Requests |-> <<>>]
    /\ files = {}
    /\ created = {}
    /\ last_error_reason = None
    /\ loop = {}
    /\ workers = {}
    /\ pool_size \in PoolSizes
    /\ orphan = [r \in Requests |-> None]
    /\ last = NoOp
    /\ call = NoCall
    /\ conv_call = NoConvCall

Made(r, path) == [owner |-> r, path |-> path]

\* Stage events are appended as the handler passes them.
Stage(r, events) == stages' = [stages EXCEPT ![r] = @ \o events]

\* The operations a request performs on files and on the detector are appended
\* as it performs them: "open" (aiofiles.open creates the upload), "write"
\* (f.write; the close adds no operation of its own), "stat" (os.path.exists,
\* os.path.getsize), "probe" (sf.info, librosa.load of the preflight),
\* "normalize" (librosa.load and sf.write of the conversion), "detect"
\* (find_and_output_chorus), "remove" (os.remove); "raise" follows an operation
\* that raised.
Io(r, ops) == io' = [io EXCEPT ![r] = @ \o ops]

\* main.py 116-127 and 217-222: the details of the form checks and of the
\* catch-all handler.
InvalidFileType == "Invalid file type. Supported formats: mp3, wav, m4a, flac"
InternalError(text) == "Internal server error: " \o text

\* The handler of request r ends with response rsp.
Respond(r, rsp) ==
    /\ pc' = [pc EXCEPT ![r] = "done"]
    /\ resp' = [resp EXCEPT ![r] = rsp]

\* ------------------------------------------- POST /extract-chorus, main.py
\* Lines 114-133: the two form checks, then the identifier and the start of the
\* save.  Requests are numbered in their order of arrival.
Receive(r) ==
    /\ pc[r] = "idle"
    /\ \A q \in Requests : q < r => pc[q] # "idle"
    /\ loop = {}
    /\ \E filename \in Filenames, d \in TargetDurations :
       /\ upload_name' = [upload_name EXCEPT ![r] = filename]
       /\ IF ~is_valid_audio_file(filename) THEN
            /\ Respond(r, Response(400, "HTTPException", InvalidFileType,
                                   Nothing, NoPath, <<>>))
            /\ UNCHANGED <<duration, input_path>>
         ELSE IF d < 10 \/ d > 120 THEN
            /\ Respond(r, Response(400, "HTTPException",
                                   "Duration must be between 10 and 120 seconds",
                                   Nothing, NoPath, <<>>))
            /\ UNCHANGED <<duration, input_path>>
         ELSE
            /\ pc' = [pc EXCEPT ![r] = "saving"]
            /\ duration' = [duration EXCEPT ![r] = d]
            /\ input_path' = [input_path EXCEPT ![r] = UploadPath(filename, uuid4(r))]
            /\ resp' = resp
    /\ last' = NoOp
    /\ UNCHANGED <<pf, wav_path, conv, det, result, own, stages, files, created,
                   last_error_reason, loop, workers, call, conv_call, io, pool_size, orphan>>

\* save_uploaded_file, file_manager.py 34-43: aiofiles.open runs on a thread of
\* the loop's default executor and creates the file, empty, or raises and
\* creates nothing; the coroutine is suspended meanwhile and other handlers run.
SaveOpen(r) ==
    /\ pc[r] = "saving"
    /\ PoolHasFreeThread(Busy, pool_size)
    /\ \E raises \in BOOLEAN :
         IF raises THEN
            /\ pc' = [pc EXCEPT ![r] = "save_failed"]
            /\ Io(r, <<"open", "raise">>)
            /\ UNCHANGED <<files, created>>
         ELSE
            /\ pc' = [pc EXCEPT ![r] = "opened"]
            /\ files' = files \cup {input_path[r]}
            /\ created' = created \cup {Made(r, input_path[r])}
            /\ Io(r, <<"open">>)
    /\ last' = NoOp
    /\ UNCHANGED <<duration, input_path, pf, wav_path, conv, det, result, resp, own,
                   stages, last_error_reason, loop, workers, call, conv_call,
                   upload_name, pool_size, orphan>>

\* file_manager.py 44-45: the content is read and f.write runs on a pool thread.
\* It goes to the open descriptor: a file that a cleanup call unlinked in the
\* meantime is not created again.  A write that raises leaves the file as it is;
\* the coroutine then leaves the "async with" through the close.
SaveWrite(r) ==
    /\ pc[r] = "opened"
    /\ PoolHasFreeThread(Busy, pool_size)
    /\ \E raises \in BOOLEAN :
         /\ pc' = [pc EXCEPT ![r] = IF raises THEN "write_failed" ELSE "written"]
         /\ Io(r, IF raises THEN <<"write", "raise">> ELSE <<"write">>)
    /\ last' = NoOp
    /\ UNCHANGED <<duration, input_path, pf, wav_path, conv, det, result, resp, own,
                   stages, files, created, last_error_reason, loop, workers, call,
                   conv_call, upload_name, pool_size, orphan>>

\* file_manager.py 43-48: leaving the "async with" awaits the close, one more
\* call on a pool thread, after which the path is returned (lines 47-48).  After
\* a write that raised, the close is awaited all the same and the exception of
\* the write goes on; a close that raises (the flush of buffered bytes) ends the
\* save the same way.
SaveUploadedFile(r) ==
    /\ pc[r] \in {"written", "write_failed"}
    /\ PoolHasFreeThread(Busy, pool_size)
    /\ \E raises \in BOOLEAN :
         /\ raises => pc[r] = "written"
         /\ pc' = [pc EXCEPT ![r] = IF raises \/ pc[r] = "write_failed"
                                     THEN "save_failed" ELSE "saved"]
         /\ Io(r, IF raises THEN <<"raise">> ELSE <<>>)
    /\ last' = NoOp
    /\ UNCHANGED <<duration, input_path, pf, wav_path, conv, det, result, resp, own,
                   stages, files, created, last_error_reason, loop, workers, call,
                   conv_call, upload_name, pool_size, orphan>>

\* The coroutine is resumed with the exception of the save (of its open, its
\* write or its close; "close_failed": of the close a cancellation went
\* through): file_manager.py 50-52 log and re-raise it, main.py 217-222 answer
\* 500 with its text.
SaveFails(r) ==
    /\ pc[r] \in {"save_failed", "close_failed"}
    /\ loop = {}
    /\ Respond(r, Response(500, "HTTPException", InternalError(WriteError),
                           Nothing, NoPath, <<>>))
    /\ last' = NoOp
    /\ UNCHANGED <<duration, input_path, pf, wav_path, conv, det, result, own,
                   stages, files, created, last_error_reason, loop, workers, call,
                   conv_call, upload_name, io, pool_size, orphan>>

\* The request's own write of the shared field.
WriteReason(r, reason) ==
    /\ last_error_reason' = reason
    /\ own' = [own EXCEPT ![r] = reason]

\* main.py 153-168: a rejected preflight ends the request.
RejectPreflight(r, out) ==
    /\ pf' = [pf EXCEPT ![r] = out.err.type]
    /\ Respond(r, Response(PreflightStatus(out.err.type), out.err.type,
                           out.err.message, Nothing, NoPath, <<>>))

\* preflight_validate lines 46-55, called at main.py 140 once the save is over:
\* the reset of the shared field and the existence test.  A file that exists is
\* then probed and decoded in the coroutine itself, which keeps the event loop.
PreflightBegin(r) ==
    /\ pc[r] = "saved"
    /\ loop = {}
    /\ IF input_path[r] \in files THEN
          /\ pc' = [pc EXCEPT ![r] = "probing"]
          /\ loop' = {r}
          /\ WriteReason(r, None)
          /\ Stage(r, <<"validation begins">>)
          /\ UNCHANGED <<pf, resp>>
       ELSE
          LET out == preflight_validate(FALSE, Corrupt, EndpointConfig(FALSE, TRUE, TRUE))
          IN  /\ RejectPreflight(r, out)
              /\ WriteReason(r, out.reason)
              /\ Stage(r, <<"validation begins", "validation ends">>)
              /\ loop' = loop
    /\ Io(r, <<"stat">>)
    /\ last' = NoOp
    /\ UNCHANGED <<duration, input_path, wav_path, conv, det, result, files, created,
                   workers, call, conv_call, upload_name, pool_size, orphan>>

\* The detector dispatched straight after preflight.
EnterDetector == "normalized"

\* main.py 170-177: an accepted upload goes on to AudioProcessor.extract_chorus,
\* whose first steps are the input checks and the normalisation.
EnterExtract == "validated"

\* preflight_validate lines 57-164 and the gate of main.py 153: sf.info and
\* librosa.load return (or raise), the rules run, a rejection ends the request.
PreflightEnd(r) ==
    /\ pc[r] = "probing"
    /\ loop = {r}
    /\ \E asset \in EndpointAssets, long_audio_mode \in BOOLEAN,
          downmix \in BOOLEAN, resample \in BOOLEAN :
         LET out == preflight_validate(TRUE, asset,
                                       EndpointConfig(long_audio_mode, downmix, resample))
         IN  /\ IF PreflightRejects(out.ok, out.err) THEN
                   /\ RejectPreflight(r, out)
                   /\ WriteReason(r, out.reason)
                   /\ loop' = {}
                ELSE
                   /\ pf' = [pf EXCEPT ![r] = IF out.ok THEN "Ok" ELSE out.err.type]
                   /\ pc' = [pc EXCEPT ![r] = EnterExtract]
                   /\ UNCHANGED <<resp, own, last_error_reason, loop>>
             /\ Io(r, IF asset.decodable THEN <<"probe">> ELSE <<"probe", "raise">>)
    /\ Stage(r, <<"validation ends">>)
    /\ last' = NoOp
    /\ UNCHANGED <<duration, input_path, wav_path, conv, det, result, files, created,
                   workers, call, conv_call, upload_name, pool_size, orphan>>

\* AudioProcessor.extract_chorus lines 185-204 up to the decode of _convert_to_wav.
\* A failed check writes its reason and returns None; the answer of main.py
\* 179-203 is AnswerFailure.
ExtractBegin(r) ==
    /\ pc[r] = "validated"
    /\ loop = {r}
    /\ \E file_size \in FileSizes, stat_raises \in BOOLEAN :
         LET reason == validate_input_file(input_path[r] \in files,
                                           stat_raises, file_size,
                                           Lower(Suffix(input_path[r].name)))
         IN  /\ IF reason # None THEN
                   /\ WriteReason(r, reason)
                   /\ pc' = [pc EXCEPT ![r] = "answering"]
                   /\ UNCHANGED <<wav_path, conv, stages, resp, loop>>
                ELSE IF ~validate_duration(duration[r]) THEN
                   /\ WriteReason(r, InvalidDurationReason(duration[r]))
                   /\ pc' = [pc EXCEPT ![r] = "answering"]
                   /\ UNCHANGED <<wav_path, conv, stages, resp, loop>>
                ELSE IF AlreadyWav(input_path[r]) THEN
                   /\ WriteReason(r, None)
                   /\ pc' = [pc EXCEPT ![r] = "normalized"]
                   /\ wav_path' = [wav_path EXCEPT ![r] = input_path[r]]
                   /\ conv' = [conv EXCEPT ![r] = "same"]
                   /\ Stage(r, <<"normalization begins", "normalization ends">>)
                   /\ UNCHANGED <<resp, loop>>
                ELSE
                   /\ WriteReason(r, None)
                   /\ pc' = [pc EXCEPT ![r] = "converting"]
                   /\ Stage(r, <<"normalization begins">>)
                   /\ UNCHANGED <<wav_path, conv, resp, loop>>
             /\ Io(r, IF input_path[r] \in files /\ stat_raises
                       THEN <<"stat", "raise">> ELSE <<"stat">>)
    /\ last' = NoOp
    /\ UNCHANGED <<duration, input_path, pf, det, result, files, created, workers, call, conv_call, upload_name, pool_size, orphan>>

\* _convert_to_wav lines 277-293: librosa.load and sf.write, in the coroutine.
\* "created": the file is written and its path returned.  "failed": the decode
\* raises, or sf.write raises before the file exists.  "partial": sf.write
\* raises after it opened the file.  The failures leave the text of their
\* exception as the reason and return the input path.
ConvertEnd(r) ==
    /\ pc[r] = "converting"
    /\ loop = {r}
    /\ \E decodable \in BOOLEAN, write \in SfWrites :
         LET wav == WithSuffixWav(input_path[r])
             out == convert_to_wav(input_path[r],
                                   IF decodable THEN Asset(TRUE, MaxFrames, 1, 1, FALSE, 0)
                                   ELSE Corrupt, write)
         IN  /\ conv' = [conv EXCEPT ![r] = out.outcome]
             /\ wav_path' = [wav_path EXCEPT ![r] =
                               ConvertedPath(out.outcome, input_path[r], wav)]
             /\ files' = IF out.outcome = "failed" THEN files ELSE files \cup {wav}
             /\ created' = IF out.outcome = "failed" THEN created
                           ELSE created \cup {Made(r, wav)}
             /\ IF out.outcome = "created"
                THEN UNCHANGED <<own, last_error_reason>>
                ELSE WriteReason(r, out.reason)
             /\ Io(r, IF out.outcome = "created" THEN <<"normalize">>
                       ELSE <<"normalize", "raise">>)
    /\ pc' = [pc EXCEPT ![r] = "normalized"]
    /\ Stage(r, <<"normalization ends">>)
    /\ last' = NoOp
    /\ UNCHANGED <<duration, input_path, pf, det, result, resp, loop, workers, call, conv_call, upload_name, pool_size, orphan>>

\* Line 208: the coroutine awaits the executor's future; it goes on only when
\* the call is over.
AwaitExecutor == "queued"

\* extract_chorus lines 207-215: the detector call is handed to the loop's
\* default executor and the coroutine gives up the loop.
Dispatch(r) ==
    /\ pc[r] = "normalized"
    /\ loop = {r}
    /\ pc' = [pc EXCEPT ![r] = AwaitExecutor]
    /\ det' = [det EXCEPT ![r] = "queued"]
    /\ loop' = {}
    /\ last' = NoOp
    /\ UNCHANGED <<duration, input_path, pf, wav_path, conv, result, resp, own, stages,
                   files, created, last_error_reason, workers, call, conv_call, upload_name, io, pool_size, orphan>>

\* run_in_executor raises (the executor cannot take the call); lines 223-226
\* record the reason and return None; the answer is AnswerFailure.
DispatchFails(r) ==
    /\ pc[r] = "normalized"
    /\ loop = {r}
    /\ WriteReason(r, UnexpectedReason(DispatchError))
    /\ pc' = [pc EXCEPT ![r] = "answering"]
    /\ last' = NoOp
    /\ UNCHANGED <<duration, input_path, pf, wav_path, conv, det, result, resp, stages,
                   files, created, loop, workers, call, conv_call, upload_name, io,
                   pool_size, orphan>>

\* main.py 179-203 after a None return whose reason extract_chorus wrote in the
\* same turn of the loop: the handler reads audio_processor.last_error_reason.
\* The field is not locked and the detector calls write it from their pool
\* threads (lines 259 and 265), so a write of theirs can fall between the
\* handler's write and this read.
AnswerFailure(r) ==
    /\ pc[r] = "answering"
    /\ loop = {r}
    /\ Respond(r, ExtractionFailed(ReasonRead(last_error_reason)))
    /\ loop' = {}
    /\ last' = NoOp
    /\ UNCHANGED <<duration, input_path, pf, wav_path, conv, det, result, own, stages,
                   files, created, last_error_reason, workers, call, conv_call,
                   upload_name, io, pool_size, orphan>>

\* The default executor starts the call on a free thread of its pool; the call
\* itself is _extract_chorus_sync, lines 228-266.  The detector opens its input
\* first: when the file is gone the call can only raise.
DetectorStart(r) ==
    /\ pc[r] = "queued"
    /\ PoolHasFreeThread(Busy, pool_size)
    /\ workers' = workers \cup {r}
    /\ pc' = [pc EXCEPT ![r] = "running"]
    /\ det' = [det EXCEPT ![r] = IF wav_path[r] \in files THEN "running" ELSE "failing"]
    /\ Stage(r, <<"detection begins">>)
    /\ Io(r, <<"detect">>)
    /\ last' = NoOp
    /\ UNCHANGED <<duration, input_path, pf, wav_path, conv, result, resp, own, files,
                   created, last_error_reason, loop, call, conv_call, upload_name, pool_size, orphan>>

\* find_and_output_chorus returns a start time and has written the output file.
DetectorReturns(r) ==
    /\ pc[r] \in {"running", "abandoned"} /\ r \in workers
    /\ det[r] = "running"
    /\ \E v \in Offsets : result' = [result EXCEPT ![r] = Some(v)]
    /\ det' = [det EXCEPT ![r] = "returned"]
    /\ files' = files \cup {OutputPath(uuid4(r))}
    /\ created' = created \cup {Made(r, OutputPath(uuid4(r)))}
    /\ workers' = Release(workers, r)
    /\ pc' = [pc EXCEPT ![r] = IF pc[r] = "abandoned" THEN "abandoned" ELSE "resuming"]
    /\ Stage(r, <<"detection ends">>)
    /\ last' = NoOp
    /\ UNCHANGED <<duration, input_path, pf, wav_path, conv, resp, own,
                   last_error_reason, loop, call, conv_call, upload_name, io, pool_size, orphan>>

\* The failed detector call handed back to the pool for another attempt.
RetryDetector == "queued"

\* Lines 208-215: the awaited call is over, with a result or with None, and the
\* coroutine goes on after the await.
AfterDetectorFailure == "resuming"

\* A None result of the detector returned without a reason recorded.
NoChorusUnrecorded == None

\* Lines 257-259: the reason recorded when the detector finds no chorus.
NoChorusReason == "No chorus found in the audio file"

\* find_and_output_chorus returns None (lines 257-259) or raises (lines 263-266):
\* the pool thread writes the shared field and returns None.
DetectorFails(r) ==
    /\ pc[r] \in {"running", "abandoned"} /\ r \in workers
    /\ \E outcome \in {"nothing", "raised"}, text \in DetectorErrors :
         /\ outcome = "nothing" => det[r] = "running"
         /\ det' = [det EXCEPT ![r] = outcome]
         /\ WriteReason(r, IF outcome = "nothing"
                           THEN NoChorusReason
                           ELSE ChorusFailedReason(text))
         /\ Io(r, IF outcome = "nothing" THEN <<>> ELSE <<"raise">>)
    /\ result' = [result EXCEPT ![r] = Nothing]
    /\ workers' = Release(workers, r)
    /\ pc' = [pc EXCEPT ![r] = IF pc[r] = "abandoned" THEN "abandoned"
                                ELSE AfterDetectorFailure]
    /\ Stage(r, <<"detection ends">>)
    /\ last' = NoOp
    /\ UNCHANGED <<duration, input_path, pf, wav_path, conv, resp, files, created,
                   loop, call, conv_call, upload_name, pool_size, orphan>>

\* The pool thread of an abandoned request stopped with the request.
AbandonPreempts(busy, r) == busy \ {r}

\* concurrent.futures: cancelling the future of a call that already runs has no
\* effect on its thread.
AbandonKeeps(busy, r) == busy

\* The call of the save that waits for a pool thread when the coroutine is at
\* position at: the open, the write, or the close of the "async with".
PendingCall(at) ==
    IF at = "saving" THEN "open"
    ELSE IF at = "opened" THEN "write"
    ELSE IF at \in {"written", "write_failed"} THEN "close"
    ELSE None

\* The operations of a pool call of the save, as it returns or raises; the close
\* adds no operation of its own.
TakenOps(job, raises) ==
    IF job = "close" THEN (IF raises THEN <<"raise">> ELSE <<>>)
    ELSE IF raises THEN <<job, "raise">> ELSE <<job>>

\* The caller goes away while the coroutine is suspended: in save_uploaded_file
\* (file_manager.py 43-46: at the open, at the write, at the close, or with the
\* exception of the save not yet delivered) or at line 208 of extract_chorus, the
\* detector call waiting, running or already over with the coroutine not yet
\* resumed.  The await is cancelled, which "except Exception" (line 223,
\* file_manager.py 50, main.py 217) does not catch.  A call still waiting in the
\* executor's queue is cancelled with its future; a call that a pool thread
\* already took (taken) is not: it keeps its thread and is made later, on that
\* thread (TakenCall).
\* A cancellation delivered inside the "async with" (the coroutine is at the
\* write: waiting for it, or not yet resumed after it returned or raised)
\* leaves the block through the close, which is awaited on a pool thread before
\* the cancellation goes on (closes).  Delivered at the open, whose result the
\* coroutine has not taken yet, or at the close itself, or anywhere else, it
\* ends the handler at once and nothing is answered.
Abandon(r) ==
    /\ pc[r] \in {"saving", "opened", "written", "write_failed", "save_failed",
                  "saved", "queued", "running", "resuming"}
    /\ loop = {}
    /\ det' = [det EXCEPT ![r] = IF pc[r] = "queued" THEN "cancelled" ELSE @]
    /\ workers' = AbandonKeeps(workers, r)
    /\ \E taken \in BOOLEAN, closes \in BOOLEAN :
         /\ taken => /\ PendingCall(pc[r]) # None
                     /\ PoolHasFreeThread(Busy, pool_size)
         /\ closes => pc[r] \in {"opened", "written", "write_failed"}
         /\ taken /\ PendingCall(pc[r]) = "write" => closes
         /\ taken /\ PendingCall(pc[r]) = "close" => ~closes
         /\ pc' = [pc EXCEPT ![r] = IF closes THEN "closing" ELSE "abandoned"]
         /\ orphan' = [orphan EXCEPT ![r] = IF taken THEN PendingCall(pc[r]) ELSE None]
    /\ last' = NoOp
    /\ UNCHANGED <<duration, input_path, pf, wav_path, conv, result, resp, own, stages,
                   files, created, io, last_error_reason, loop, call, conv_call,
                   upload_name, pool_size>>

\* The pool thread that took a call of the save before the request was cancelled
\* makes the call: an open creates the upload unless it raises, a write or a
\* close returns or raises.  What it returns or raises reaches nobody, and the
\* thread is free again.  A write made after the close of the same file (the
\* close of CloseAfterCancel, made by another thread in the meantime) finds the
\* file closed and raises.
TakenCall(r) ==
    /\ orphan[r] # None
    /\ \E raises \in BOOLEAN :
         /\ orphan[r] = "write" /\ pc[r] # "closing" => raises
         /\ files' = IF orphan[r] = "open" /\ ~raises
                     THEN files \cup {input_path[r]} ELSE files
         /\ created' = IF orphan[r] = "open" /\ ~raises
                       THEN created \cup {Made(r, input_path[r])} ELSE created
         /\ Io(r, TakenOps(orphan[r], raises))
    /\ orphan' = [orphan EXCEPT ![r] = None]
    /\ last' = NoOp
    /\ UNCHANGED <<pc, duration, input_path, pf, wav_path, conv, det, result, resp, own,
                   stages, last_error_reason, loop, workers, call, conv_call,
                   upload_name, pool_size>>

\* file_manager.py 43-46 under a cancellation: the close that the "async with"
\* awaits on its way out runs on a pool thread.  When it returns, the
\* cancellation goes on and nothing is answered.  When it raises, its exception
\* takes the place of the cancellation: lines 50-52 re-raise it and main.py
\* 217-222 answer 500 (SaveFails).
CloseAfterCancel(r) ==
    /\ pc[r] = "closing"
    /\ PoolHasFreeThread(Busy, pool_size)
    /\ \E raises \in BOOLEAN :
         /\ pc' = [pc EXCEPT ![r] = IF raises THEN "close_failed" ELSE "abandoned"]
         /\ Io(r, IF raises THEN <<"raise">> ELSE <<>>)
    /\ last' = NoOp
    /\ UNCHANGED <<duration, input_path, pf, wav_path, conv, det, result, resp, own,
                   stages, files, created, last_error_reason, loop, workers, call,
                   conv_call, upload_name, pool_size, orphan>>

\* main.py 205-213
Success(r, start) ==
    Response(200, "ChorusExtractionResponse", "Chorus extracted successfully",
             start, OutputPath(uuid4(r)), uuid4(r))

\* main.py 179-213: a None result is answered with the reason read from the
\* shared field, any other result with the success response.
Answer(r, start, shared) ==
    IF start = Nothing THEN ExtractionFailed(ReasonRead(shared)) ELSE Success(r, start)

\* extract_chorus lines 217-221 when the awaited call is over, then main.py
\* 179-213, in one turn of the loop.  When os.remove raises, lines 223-226
\* record the reason and return None; the answer is then AnswerFailure.
Resume(r) ==
    /\ pc[r] = "resuming"
    /\ loop = {}
    /\ \E remove_raises \in BOOLEAN :
         IF ShouldRemoveWav(files, wav_path[r], input_path[r]) /\ remove_raises THEN
            /\ WriteReason(r, UnexpectedReason(RemoveError))
            /\ result' = [result EXCEPT ![r] = Nothing]
            /\ files' = files
            /\ pc' = [pc EXCEPT ![r] = "answering"]
            /\ loop' = {r}
            /\ Io(r, <<"stat", "remove", "raise">>)
            /\ UNCHANGED resp
         ELSE
            /\ ~remove_raises
            /\ files' = IF ShouldRemoveWav(files, wav_path[r], input_path[r])
                         THEN files \ RemovedByExtract(wav_path[r], input_path[r])
                         ELSE files
            /\ Io(r, IF wav_path[r] = input_path[r] THEN <<>>
                      ELSE IF wav_path[r] \in files THEN <<"stat", "remove">>
                      ELSE <<"stat">>)
            /\ Respond(r, Answer(r, result[r], last_error_reason))
            /\ UNCHANGED <<own, last_error_reason, result, loop>>
    /\ Stage(r, IF result'[r] = Nothing THEN <<>> ELSE <<"output">>)
    /\ last' = NoOp
    /\ UNCHANGED <<duration, input_path, pf, wav_path, conv, det, created,
                   workers, call, conv_call, upload_name, pool_size, orphan>>

\* ------------------------- AudioProcessor.extract_chorus called on its own
\* A caller other than the endpoint calls extract_chorus(input_path, output_path,
\* duration) with a path of its own, whose file it may or may not have put
\* there, and any duration; the call starts at line 185 and holds the loop.
DirectCall(r) ==
    /\ pc[r] = "idle"
    /\ \A q \in Requests : q < r => pc[q] # "idle"
    /\ loop = {}
    /\ \E ext \in DirectExtensions, present \in BOOLEAN, d \in DirectDurations :
         LET path == PathOf(upload_dir, uuid4(r) \o <<ext>>)
         IN  /\ input_path' = [input_path EXCEPT ![r] = path]
             /\ duration' = [duration EXCEPT ![r] = d]
             /\ files' = IF present THEN files \cup {path} ELSE files
             /\ created' = IF present THEN created \cup {Made(r, path)} ELSE created
    /\ pc' = [pc EXCEPT ![r] = "validated"]
    /\ loop' = {r}
    /\ last' = NoOp
    /\ UNCHANGED <<pf, wav_path, conv, det, result, resp, own, stages, upload_name, io,
                   last_error_reason, workers, call, conv_call, pool_size, orphan>>

\* ------------------------------------------ DELETE /cleanup/{file_id}, main.py
CleanupArgs == {uuid4(r) : r \in Requests}

\* main.py 256-272 around file_manager.cleanup_files, which returns nothing: the
\* answer carries a message and the identifier.
Cleanup(x) ==
    /\ loop = {}
    /\ \E visits \in {list_files_by_id(files, x)} :
       \E f \in visits \cup {NoPath} :
       \E before \in SUBSET {g \in visits : g.dir = f.dir /\ g # f} :
       \E out \in {cleanup_files(files, x, [file |-> f, before |-> before])} :
         /\ files' = files \ out.removed
         /\ last' = [op |-> "cleanup", file_id |-> x,
                     removed |-> Cardinality(out.removed),
                     raised |-> out.raised,
                     returned |-> Nothing,
                     repeat |-> last.op = "cleanup" /\ last.file_id = x
                                /\ ~last.raised]
    /\ UNCHANGED <<reqVars, created, last_error_reason, loop, workers, call, conv_call, pool_size, orphan>>

\* ------------------------------ AudioProcessor.cleanup_temp_files, 347-355
\* Every listed path that exists is removed; an os.remove that raises is logged
\* and the loop goes on.  The method returns nothing and raises nothing.
cleanup_temp_files(on_disk, file_paths, failing) ==
    on_disk \ (file_paths \ failing)

\* The lists a caller passes: up to two paths, of files that are there or not.
TempFileLists(on_disk) ==
    {l \in SUBSET (on_disk \cup {PathOf(temp_dir, <<"scratch", ".wav">>)}) :
        Cardinality(l) <= 2}

\* A caller of the processor cleans up a list of paths; nothing in the repository
\* makes this call.
CleanupTempFiles ==
    /\ loop = {}
    /\ \E file_paths \in TempFileLists(files) : \E failing \in SUBSET file_paths :
         /\ files' = cleanup_temp_files(files, file_paths, failing)
         /\ last' = [op |-> "cleanup_temp_files", file_id |-> <<>>,
                     removed |-> Cardinality(files \ files'), raised |-> FALSE,
                     returned |-> Nothing, repeat |-> FALSE]
    /\ UNCHANGED <<reqVars, created, last_error_reason, loop, workers, call, conv_call,
                   pool_size, orphan>>

\* ----------------------------------------------------------- specifications
Next ==
    \/ \E r \in Requests : Receive(r)
    \/ \E r \in Requests : SaveOpen(r)
    \/ \E r \in Requests : SaveWrite(r)
    \/ \E r \in Requests : SaveUploadedFile(r)
    \/ \E r \in Requests : SaveFails(r)
    \/ \E r \in Requests : PreflightBegin(r)
    \/ \E r \in Requests : PreflightEnd(r)
    \/ \E r \in Requests : ExtractBegin(r)
    \/ \E r \in Requests : ConvertEnd(r)
    \/ \E r \in Requests : Dispatch(r)
    \/ \E r \in Requests : DispatchFails(r)
    \/ \E r \in Requests : AnswerFailure(r)
    \/ \E r \in Requests : DetectorStart(r)
    \/ \E r \in Requests : DetectorReturns(r)
    \/ \E r \in Requests : DetectorFails(r)
    \/ \E r \in Requests : Resume(r)

\* The extraction pipeline under concurrent requests.
Spec == Init /\ [][Next]_vars

\* The pipeline under a fair schedule: the event loop runs a coroutine that is
\* ready (the steps that hold or need the loop), the pool starts a queued call
\* when a thread is free, and a detector call that runs comes to an end.
Fairness ==
    \A r \in Requests :
        /\ WF_vars(PreflightEnd(r))
        /\ WF_vars(ExtractBegin(r))
        /\ WF_vars(ConvertEnd(r))
        /\ WF_vars(Dispatch(r) \/ DispatchFails(r))
        /\ WF_vars(AnswerFailure(r))
        /\ WF_vars(DetectorStart(r))
        /\ WF_vars(DetectorReturns(r) \/ DetectorFails(r))
        /\ WF_vars(Resume(r))

SpecFair == Init /\ [][Next]_vars /\ Fairness

\* The pipeline with callers that may go away during the detector call.
NextAbandon ==
    \/ Next
    \/ \E r \in Requests : Abandon(r)
    \/ \E r \in Requests : CloseAfterCancel(r)
    \/ \E r \in Requests : TakenCall(r)

SpecAbandon == Init /\ [][NextAbandon]_vars /\ Fairness

\* The default executor with a thread for every request, as it has under a load
\* of fewer requests than min(32, os.cpu_count() + 4).
InitRoomy == Init /\ pool_size = MaxWorkers

\* The pipeline together with the cleanup endpoint.
NextLifecycle ==
    \/ Next
    \/ \E x \in CleanupArgs : Cleanup(x)

SpecLifecycle == InitRoomy /\ [][NextLifecycle]_vars

\* The pipeline together with a caller of cleanup_temp_files.
NextTempFiles ==
    \/ Next
    \/ CleanupTempFiles

SpecTempFiles == InitRoomy /\ [][NextTempFiles]_vars

\* DELETE /cleanup/{file_id} takes any string, not only the identifiers
\* handed out: here the first character of an identifier.
CleanupPrefixes == {<<IdFirst[r]>> : r \in Requests}

\* The pipeline together with the cleanup endpoint called with such a string.
NextPrefixCleanup ==
    \/ Next
    \/ \E x \in CleanupPrefixes : Cleanup(x)

SpecPrefixCleanup == InitRoomy /\ [][NextPrefixCleanup]_vars

\* ------------------------------------------ GET /download/{file_id}, main.py
\* The identifiers a client was given: those of the success responses.
Given == {uuid4(r) : r \in {q \in Requests : resp[q].status = 200}}

\* main.py 224-254: the file f"{file_id}_chorus.wav" of the output directory is
\* returned when os.path.exists finds it; HTTPException 404 is raised otherwise.
download_chorus(on_disk, file_id) ==
    IF OutputPath(file_id) \in on_disk
    THEN [status |-> 200, path |-> OutputPath(file_id)]
    ELSE [status |-> 404, path |-> NoPath]

Download(x) ==
    /\ loop = {}
    /\ x \in Given
    /\ LET out == download_chorus(files, x)
       IN  last' = [op |-> "download", file_id |-> x, removed |-> 0,
                    raised |-> out.status # 200,
                    returned |-> IF out.status = 200 THEN Some(out.path) ELSE Nothing,
                    repeat |-> FALSE]
    /\ UNCHANGED <<reqVars, files, created, last_error_reason, loop, workers, call,
                   conv_call, pool_size, orphan>>

\* A client cleans up an identifier it was given.
ClientCleanup(x) == x \in Given /\ Cleanup(x)

\* The pipeline with clients that download and clean up the identifiers they
\* were given, and cleanup calls with a shorter string.
NextDownload ==
    \/ Next
    \/ \E x \in CleanupArgs : ClientCleanup(x)
    \/ \E x \in CleanupPrefixes : Cleanup(x)
    \/ \E x \in CleanupArgs : Download(x)

SpecDownload == InitRoomy /\ [][NextDownload]_vars

\* Direct calls of AudioProcessor.extract_chorus, without the endpoint's form
\* checks and preflight in front of them.
NextDirect ==
    \/ \E r \in Requests : DirectCall(r)
    \/ \E r \in Requests : ExtractBegin(r)
    \/ \E r \in Requests : ConvertEnd(r)
    \/ \E r \in Requests : Dispatch(r)
    \/ \E r \in Requests : DispatchFails(r)
    \/ \E r \in Requests : AnswerFailure(r)
    \/ \E r \in Requests : DetectorStart(r)
    \/ \E r \in Requests : DetectorReturns(r)
    \/ \E r \in Requests : DetectorFails(r)
    \/ \E r \in Requests : Resume(r)

SpecDirect == Init /\ [][NextDirect]_vars

\* The same caller making its calls one after the other: a call starts when the
\* calls before it have returned.
SerialCall(r) ==
    /\ \A q \in Requests : q < r => pc[q] = "done"
    /\ DirectCall(r)

NextSerial ==
    \/ \E r \in Requests : SerialCall(r)
    \/ \E r \in Requests : ExtractBegin(r)
    \/ \E r \in Requests : ConvertEnd(r)
    \/ \E r \in Requests : Dispatch(r)
    \/ \E r \in Requests : DispatchFails(r)
    \/ \E r \in Requests : AnswerFailure(r)
    \/ \E r \in Requests : DetectorStart(r)
    \/ \E r \in Requests : DetectorReturns(r)
    \/ \E r \in Requests : DetectorFails(r)
    \/ \E r \in Requests : Resume(r)

SpecSerial == Init /\ [][NextSerial]_vars

\* An isolated call of preflight_validate on any asset under any configuration.
PfInputs ==
    [exists : {TRUE}, asset : PfAssets, cfg : PfConfigs]
    \cup [exists : {FALSE}, asset : {Corrupt}, cfg : PfConfigs]

PreflightCall ==
    /\ ~call.made
    /\ \E in \in PfInputs :
         LET out == preflight_validate(in.exists, in.asset, in.cfg)
         IN  /\ call' = [made |-> TRUE, exists |-> in.exists, asset |-> in.asset,
                         cfg |-> in.cfg, out |-> out]
             /\ last_error_reason' = out.reason
    /\ UNCHANGED <<reqVars, files, created, loop, workers, last, conv_call, pool_size, orphan>>

NextPreflight == PreflightCall

\* An isolated call of _convert_to_wav on a file the caller put in uploads.
ConvertCall ==
    /\ ~conv_call.made
    /\ \E in \in ConvInputs :
         LET out == convert_to_wav(in.path, in.asset, in.write)
         IN  /\ conv_call' = [made |-> TRUE, path |-> in.path, asset |-> in.asset,
                              write |-> in.write, out |-> out]
             /\ files' = files \cup {in.path}
                            \cup (IF out.outcome \in {"created", "partial"}
                                  THEN {WithSuffixWav(in.path)} ELSE {})
             /\ last_error_reason' =
                    IF out.reason = None THEN last_error_reason ELSE out.reason
    /\ UNCHANGED <<reqVars, created, loop, workers, last, call, pool_size, orphan>>

NextConvert == ConvertCall

SpecConvert == Init /\ [][NextConvert]_vars

SpecPreflight == Init /\ [][NextPreflight]_vars

\* ------------------------------------------------------------------ claims
\* The isolated call probed its asset: the file exists and decodes.
Probed == call.made /\ call.exists /\ call.asset.decodable

\* The five rules of the validator as the specification words them, on the asset
\* and the configuration of the call.
Violates(a, c, dbfs) ==
    <<a.frames < c.min_seconds * a.sr,
      a.frames > c.max_seconds * a.sr /\ ~c.long_audio_mode,
      dbfs < c.silence_rms_dbfs_threshold,
      c.mono_required /\ a.channels > 1 /\ ~c.allow_downmix,
      (a.sr < c.min_sample_rate \/ a.sr > c.max_sample_rate) /\ ~c.allow_resample>>

RuleKinds ==
    <<"Audio.TooShort", "Audio.TooLong", "Audio.SilentOrLowRMS", "Audio.MonoRequired",
      "Audio.SampleRateUnsupported">>

CallViolates == Violates(call.asset, call.cfg, call.out.info.rms_dbfs)

\* C1: whenever an asset violates some rule, preflight_validate rejects it with
\* one kind, the kind of the first violated rule in the order TooShort, TooLong,
\* SilentOrLowRMS, MonoRequired, SampleRateUnsupported; no rule violated, it accepts.
C1_FirstViolatedRuleReported ==
    Probed =>
        IF \E i \in 1..5 : CallViolates[i]
        THEN LET first == CHOOSE i \in 1..5 :
                            CallViolates[i] /\ \A j \in 1..(i - 1) : ~CallViolates[j]
             IN  ~call.out.ok /\ call.out.err.type = RuleKinds[first]
        ELSE call.out.ok /\ call.out.err = NoErr

\* C1 witness: an asset both too long (long mode off) and silent, not too short,
\* reported as Audio.TooLong.
C1_Witness ==
    /\ Probed
    /\ ~CallViolates[1] /\ CallViolates[2] /\ CallViolates[3]
    /\ call.out.err.type = "Audio.TooLong"

\* C2: the normaliser and the detector are only ever reached by a request whose
\* preflight ended and ended Ok.
C2_DetectionOnlyAfterOk ==
    \A r \in Requests :
        (det[r] # None \/ conv[r] # None \/ pc[r] \in {"converting", "normalized"})
            => pf[r] = "Ok" /\ Len(stages[r]) >= 2 /\ stages[r][2] = "validation ends"

\* C2 witness: one request rejected by preflight never reached the detector while
\* another, accepted, has its detector call running.
C2_Witness ==
    \E r, q \in Requests :
        /\ pc[r] = "done" /\ pf[r] \notin {None, "Ok"} /\ det[r] = None
        /\ pf[q] = "Ok" /\ det[q] = "running"

\* C3: once the handler is over, a converted WAV that _convert_to_wav wrote for a
\* non-WAV upload is gone.
C3_ConvertedWavRemoved ==
    \A r \in Requests :
        pc[r] = "done" /\ conv[r] = "created" => wav_path[r] \notin files

\* C4: a failed extraction is answered with the reason the request's own
\* processing wrote.
C4_OwnReasonReported ==
    \A r \in Requests :
        resp[r].type = "Extraction.Failed" => resp[r].message = ReasonRead(own[r])

StageOrder ==
    <<"validation begins", "validation ends", "normalization begins",
      "normalization ends", "detection begins", "detection ends", "output">>

\* C5: the stage events of every request come in the order validation,
\* normalisation, detection, output, none skipped, each stage ending before the
\* next begins; a success response has all of them behind it.
C5_StagesInOrder ==
    \A r \in Requests :
        /\ IsPrefix(stages[r], StageOrder)
        /\ resp[r].status = 200 => stages[r] = StageOrder

\* C5 witness: a request answered with success.
C5_Witness == \E r \in Requests : pc[r] = "done" /\ resp[r].status = 200

\* The rules after the duration rules all pass.
OthersPass == ~CallViolates[3] /\ ~CallViolates[4] /\ ~CallViolates[5]

DurationAccepted ==
    LET a == call.asset
        c == call.cfg
    IN  \/ c.min_seconds * a.sr <= a.frames /\ a.frames <= c.max_seconds * a.sr
        \/ c.long_audio_mode /\ a.frames >= c.min_seconds * a.sr

\* The window of the call is a proper one: its lower bound is not above its
\* upper bound.
ProperWindow == call.cfg.min_seconds <= call.cfg.max_seconds

\* The measured duration is exactly one of the two bounds.
AtBound ==
    \/ call.asset.frames = call.cfg.min_seconds * call.asset.sr
    \/ call.asset.frames = call.cfg.max_seconds * call.asset.sr

\* C6: with the other checks passing the call accepts exactly the durations
\* min <= d <= max (or d >= min in long mode), rejects d < min as Audio.TooShort
\* and rejects d > max, long mode off, as Audio.TooLong; the two bounds of a
\* window are accepted.  The first two sentences are checked under every
\* configuration.  A window with min > max has durations that are both below
\* min and above max, for which the claim names two kinds at once, and bounds
\* that lie outside it: there the rejection of d > max is checked for the
\* durations that are not also below min (the too-short test runs first), and
\* the acceptance of the bounds for the proper windows, which have any.
C6_DurationWindow ==
    Probed /\ OthersPass =>
        /\ call.out.ok <=> DurationAccepted
        /\ CallViolates[1] => call.out.err.type = "Audio.TooShort"
        /\ CallViolates[2] /\ ~CallViolates[1] => call.out.err.type = "Audio.TooLong"
        /\ ProperWindow /\ CallViolates[2] => call.out.err.type = "Audio.TooLong"
        /\ ProperWindow /\ AtBound => call.out.ok

\* C6 witness: a duration exactly at max_seconds, above min_seconds, long mode
\* off, is accepted.
C6_Witness ==
    /\ Probed /\ OthersPass
    /\ ~call.cfg.long_audio_mode
    /\ call.asset.frames = call.cfg.max_seconds * call.asset.sr
    /\ call.cfg.min_seconds < call.cfg.max_seconds
    /\ call.out.ok

\* C7: at most as many detector calls run at once as the pool has threads, each
\* on a pool thread and none while its request occupies the event loop.
C7_DetectorCallsBounded ==
    /\ Cardinality(workers) <= pool_size
    /\ \A r \in Requests :
         /\ det[r] \in {"running", "failing"} <=> r \in workers
         /\ r \in workers => r \notin loop

\* C7 witness: the pool is full and a further request waits for a thread.
C7_Witness ==
    /\ Cardinality(workers) = pool_size
    /\ \E r \in Requests : pc[r] = "queued"

\* C8: no request decodes (preflight probe, conversion) while occupying the event
\* loop.
C8_DecodeOffTheLoop ==
    \A r \in Requests : pc[r] \in {"probing", "converting"} => r \notin loop

\* C9: a first cleanup(id) that ends normally has removed every matching file and
\* returns their count; the one right after it removes nothing and raises nothing.
C9_CleanupTwice ==
    last.op = "cleanup" =>
        IF last.repeat
        THEN last.removed = 0 /\ ~last.raised
        ELSE ~last.raised =>
                /\ list_files_by_id(files, last.file_id) = {}
                /\ last.returned = Some(last.removed)

\* C10: every file a request created is named by the request's identifier and
\* lies in one of the three directories, every file present was so created, and
\* right after a cleanup(id) that ended normally no file of id is left.
C10_IdentifierScopedFiles ==
    /\ \A c \in created :
         /\ \E i \in 1..Len(Directories) : c.path.dir = Directories[i]
         /\ IsPrefix(uuid4(c.owner), c.path.name)
    /\ \A f \in files : \E c \in created : c.path = f
    /\ last.op = "cleanup" /\ ~last.raised
         => list_files_by_id(files, last.file_id) = {}

\* C10 witness: a cleanup that removed a request's upload and its chorus output.
C10_Witness ==
    /\ last.op = "cleanup" /\ ~last.raised /\ last.removed >= 2
    /\ \E r \in Requests : last.file_id = uuid4(r) /\ resp[r].status = 200

\* C11: for an input whose extension is .wav, the normalization step returns the
\* input path and leaves the set of files as it was, and the step of
\* extract_chorus after the detector call removes nothing.
C11_WavInputKept ==
    [][\A r \in Requests :
         Suffix(input_path[r].name) = ".wav" =>
            /\ Len(stages[r]) < 4 /\ Len(stages'[r]) >= 4
                  => wav_path'[r] = input_path[r] /\ files' = files
            /\ pc[r] = "resuming" /\ pc'[r] = "done" => files' = files]_vars

\* C11 witness: a .wav upload went through normalization and detection, was
\* answered with success, and is still in the uploads directory.
C11_Witness ==
    \E r \in Requests :
        /\ Suffix(input_path[r].name) = ".wav" /\ conv[r] = "same"
        /\ pc[r] = "done" /\ resp[r].status = 200
        /\ input_path[r] \in files

\* C12: a request whose preflight passed and whose detector call returned an
\* offset v is answered with success: chorus_start_sec = v, the output path
\* outputs/<identifier>_chorus.wav, its identifier; and the output file is there
\* for a later download.
C12_OffsetReported ==
    [][\A r \in Requests :
         pc[r] \in {"resuming", "answering"} /\ pc'[r] = "done" /\ pf[r] = "Ok"
               /\ det[r] = "returned"
            => /\ resp'[r].status = 200
               /\ resp'[r].chorus_start_sec = result[r]
               /\ resp'[r].output_file_path
                     = PathOf("outputs", uuid4(r) \o <<"_chorus", ".wav">>)
               /\ resp'[r].file_id = uuid4(r)
               /\ PathOf("outputs", uuid4(r) \o <<"_chorus", ".wav">>) \in files']_vars

\* C13: a detector call that returned no offset is reported with the kind
\* Extraction.NoChorusFound, one that raised with the kind Extraction.Failed and
\* the underlying message.
C13_NoChorusKind ==
    \A r \in Requests :
        pc[r] = "done" =>
            /\ det[r] = "nothing" => resp[r].type = "Extraction.NoChorusFound"
            /\ det[r] = "raised" => resp[r].type = "Extraction.Failed"

\* C19: when the detector returned an offset and the removal of the converted
\* WAV failed (the file is still there once the call is over), extract_chorus
\* still returns the offset.
C19_RemovalFailureKeepsOffset ==
    \A r \in Requests :
        (pc[r] = "done" /\ det[r] = "returned" /\ conv[r] = "created"
            /\ wav_path[r] \in files)
            => result[r] # Nothing

\* C14: a call whose duration is outside [10, 120] fails with the
\* invalid-duration error having performed no operation on any file nor invoked
\* the detector; the durations 10 and 120 are not refused.
C14_InvalidDurationNoIo ==
    \A r \in Requests :
        pc[r] \notin {"idle", "validated", "answering"} =>
            IF duration[r] < 10 \/ duration[r] > 120
            THEN /\ pc[r] = "done"
                 /\ resp[r].message = InvalidDurationReason(duration[r])
                 /\ io[r] = <<>>
            ELSE ~Contains(resp[r].message, "Invalid duration")

SixExtensions == {".mp3", ".wav", ".m4a", ".flac", ".aac", ".ogg"}
Spellings ==
    SixExtensions \cup {".MP3", ".Mp3", ".mP3", ".WAV", ".Wav", ".wAV", ".M4A",
                        ".m4A", ".FLAC", ".Flac", ".fLaC", ".AAC", ".aAc", ".OGG",
                        ".Ogg", ".oGg"}

\* The upload of request r is refused by the file type check.
Unsupported(r) ==
    upload_name[r] = <<>> \/ Lower(Suffix(upload_name[r])) \notin SixExtensions

\* The file type check on every spelling of the six extensions and on names
\* without a supported extension.
FileTypeCheckTable ==
    /\ \A e \in Spellings : is_valid_audio_file(<<"song", e>>)
    /\ \A name \in {<<>>, <<"notes", ".txt">>, <<"notes", ".TXT">>, <<"song", "">>} :
         ~is_valid_audio_file(name)

\* C15: an upload with an empty filename or an extension outside the six is
\* answered 400 with no identifier assigned, no file saved, no operation on any
\* file, and neither preflight nor the detector run; an upload with one of the
\* six extensions, in any letter case, passes the file type check.  The check
\* itself does not depend on the state: its table is evaluated before the first
\* request.
C15_UnsupportedRejectedFirst ==
    /\ (\A r \in Requests : pc[r] = "idle") => FileTypeCheckTable
    /\ \A r \in Requests :
         pc[r] # "idle" =>
            IF Unsupported(r)
            THEN /\ pc[r] = "done" /\ resp[r].status = 400
                 /\ resp[r].file_id = <<>> /\ input_path[r] = NoPath
                 /\ io[r] = <<>> /\ \A c \in created : c.owner # r
                 /\ pf[r] = None /\ det[r] = None /\ stages[r] = <<>>
            ELSE resp[r].message # InvalidFileType

\* C15 witness: an upload without a filename was refused and an upload named
\* song.MP3 was saved.
C15_Witness ==
    \E r, q \in Requests :
        /\ upload_name[r] = <<>> /\ pc[r] = "done" /\ resp[r].status = 400
        /\ upload_name[q] = <<"song", ".MP3">> /\ pc[q] = "saved"

ErrorKinds ==
    {"File.NotFound", "Audio.PreflightError", "Audio.TooShort", "Audio.TooLong",
     "Audio.SilentOrLowRMS", "Audio.MonoRequired", "Audio.SampleRateUnsupported"}

\* C16: every rejection of preflight_validate, whatever its kind, carries a
\* metrics field, and for the five rule kinds the metrics hold the duration, the
\* sample rate, the channel count and the loudness.
C16_MetricsOnEveryRejection ==
    call.made /\ ~call.out.ok =>
        /\ call.out.err.metrics = "attached"
        /\ (\E i \in 1..5 : call.out.err.type = RuleKinds[i]) => call.out.info.populated

\* C17: every call of preflight_validate returns either ok with no error, or not
\* ok with an error record that names a kind.
C17_OkXorError ==
    call.made =>
        \/ call.out.ok /\ call.out.err = NoErr
        \/ ~call.out.ok /\ call.out.err # NoErr /\ call.out.err.type \in ErrorKinds

\* C17 witness: the probe of an undecodable file raised and the call returned
\* not ok with the kind Audio.PreflightError.
C17_Witness ==
    /\ call.made /\ call.exists /\ ~call.asset.decodable
    /\ ~call.out.ok /\ call.out.err.type = "Audio.PreflightError"

\* The call probed an all-zero signal whose duration passes both duration rules.
SilentAndDurationPasses ==
    Probed /\ call.asset.rms_zero /\ ~CallViolates[1] /\ ~CallViolates[2]

\* C18 as stated: a fully silent asset whose duration passes is rejected as
\* Audio.SilentOrLowRMS under any finite threshold, with the loudness -240 dBFS.
C18_AsStated ==
    SilentAndDurationPasses =>
        /\ call.out.info.rms_dbfs = -240
        /\ ~call.out.ok /\ call.out.err.type = "Audio.SilentOrLowRMS"

\* C18 amended: the loudness of a fully silent asset is -240 dBFS, and the asset
\* is rejected as Audio.SilentOrLowRMS under any threshold above -240 dBFS.
C18_SilentRejectedAboveFloor ==
    SilentAndDurationPasses =>
        /\ call.out.info.rms_dbfs = -240
        /\ call.cfg.silence_rms_dbfs_threshold > -240
              => ~call.out.ok /\ call.out.err.type = "Audio.SilentOrLowRMS"

\* C18 witness: a silent asset of passing duration rejected as
\* Audio.SilentOrLowRMS under the threshold -45 dBFS.
C18_Witness ==
    /\ SilentAndDurationPasses
    /\ call.cfg.silence_rms_dbfs_threshold = -45
    /\ call.out.err.type = "Audio.SilentOrLowRMS" /\ call.out.info.rms_dbfs = -240

\* C20: every answered request has the status of its failure kind: 422 for
\* TooShort, SilentOrLowRMS, MonoRequired, SampleRateUnsupported and for a
\* detector that found no chorus, 413 for TooLong, 400 for an unsupported
\* extension.
C20_StatusOfKind ==
    \A r \in Requests :
        pc[r] = "done" =>
            /\ pf[r] \in {"Audio.TooShort", "Audio.SilentOrLowRMS", "Audio.MonoRequired",
                          "Audio.SampleRateUnsupported"} => resp[r].status = 422
            /\ pf[r] = "Audio.TooLong" => resp[r].status = 413
            /\ det[r] = "nothing" => resp[r].status = 422
            /\ Unsupported(r) => resp[r].status = 400

\* C21: a converted file is written in the temp directory under a name that
\* begins with the request's identifier, never in uploads or outputs.
C21_ConvertedInTemp ==
    \A r \in Requests :
        conv[r] = "created" =>
            /\ wav_path[r].dir = "temp"
            /\ IsPrefix(uuid4(r), wav_path[r].name)

\* C22: the file a conversion wrote has the sample rate and the channel count
\* of its input.
C22_ConversionKeepsFormat ==
    conv_call.made /\ conv_call.out.outcome = "created" =>
        /\ conv_call.out.samplerate = conv_call.asset.sr
        /\ conv_call.out.channels = conv_call.asset.channels

\* The conversion of request r raised.
ConversionFailed(r) == conv[r] \in {"failed", "partial"}

\* C23: a conversion that raises does not end the request: the call goes on with
\* the original input path, the detector is started on that path, and an offset
\* it returns is answered with success.
C23_FallbackToOriginal ==
    [][\A r \in Requests :
         /\ conv[r] = None /\ ConversionFailed(r)'
               => /\ pc'[r] = "normalized" /\ resp'[r] = NoResp
                  /\ wav_path'[r] = input_path[r]
         /\ ConversionFailed(r) /\ det[r] = "queued" /\ det'[r] # "queued"
               => det'[r] = "running" /\ wav_path[r] = input_path[r]
         /\ ConversionFailed(r) /\ det[r] = "returned" /\ pc[r] = "resuming"
               /\ pc'[r] = "done"
               => resp'[r].status = 200 /\ resp'[r].chorus_start_sec = result[r]]_vars

\* C23 witness: a request whose conversion raised was answered with success.
C23_Witness ==
    \E r \in Requests :
        ConversionFailed(r) /\ det[r] = "returned" /\ pc[r] = "done"
            /\ resp[r].status = 200

\* C24: a delete that fails during cleanup(id) is not reported to the caller as
\* an error, and every other matching file is still deleted, so that at most the
\* file whose delete failed is left.
C24_CleanupBestEffort ==
    last.op = "cleanup" =>
        /\ ~last.raised
        /\ Cardinality(list_files_by_id(files, last.file_id)) <= 1

\* The request that created file f.
OwnerOf(f) == {c.owner : c \in {d \in created : d.path = f}}

\* C25: cleanup(x) removes no file of a request whose identifier is not x.
C25_OtherIdentifiersUntouched ==
    [][last'.op = "cleanup" =>
         \A f \in files \ files' :
             \A r \in OwnerOf(f) : uuid4(r) = last'.file_id]_vars

\* The first n rules pass on the asset and the configuration of the call.
EarlierPass(n) == \A i \in 1..n : ~CallViolates[i]

\* C26: with the four earlier rules passing, the call is rejected as
\* Audio.SampleRateUnsupported exactly when the sample rate lies below
\* min_sample_rate or above max_sample_rate and allow_resample is false; with
\* allow_resample it is accepted, and so is a rate equal to a bound of the range.
C26_SampleRateRule ==
    Probed /\ EarlierPass(4) =>
        LET sr == call.asset.sr
            c == call.cfg
        IN  /\ call.out.err.type = "Audio.SampleRateUnsupported"
                <=> (sr < c.min_sample_rate \/ sr > c.max_sample_rate)
                      /\ ~c.allow_resample
            /\ call.out.ok <=> call.out.err.type # "Audio.SampleRateUnsupported"
            /\ c.allow_resample => call.out.ok
            /\ c.min_sample_rate <= c.max_sample_rate
                  /\ sr \in {c.min_sample_rate, c.max_sample_rate} => call.out.ok

\* C26 witness: a rate just above max_sample_rate, resampling off, rejected.
C26_Witness ==
    /\ Probed /\ EarlierPass(4) /\ ~call.cfg.allow_resample
    /\ call.cfg.min_sample_rate <= call.cfg.max_sample_rate
    /\ call.asset.sr = call.cfg.max_sample_rate + 1
    /\ call.out.err.type = "Audio.SampleRateUnsupported"

\* C27: with the three earlier rules passing, the call is rejected as
\* Audio.MonoRequired exactly when mono_required is true, the asset has more than
\* one channel and allow_downmix is false; in every other combination the mono
\* rule leaves the verdict to the sample-rate rule.
C27_MonoRule ==
    Probed /\ EarlierPass(3) =>
        LET c == call.cfg
            rejects == c.mono_required /\ call.asset.channels > 1 /\ ~c.allow_downmix
        IN  /\ call.out.err.type = "Audio.MonoRequired" <=> rejects
            /\ ~rejects =>
                  IF CallViolates[5]
                  THEN call.out.err.type = "Audio.SampleRateUnsupported"
                  ELSE call.out.ok

\* C27 witness: a stereo asset rejected as mono required, and the same
\* requirement would pass with downmix allowed.
C27_Witness ==
    /\ Probed /\ EarlierPass(3) /\ call.cfg.mono_required
    /\ call.asset.channels = 2 /\ ~call.cfg.allow_downmix
    /\ call.out.err.type = "Audio.MonoRequired"

\* The probe of request r raised.
ProbeRaised(r) ==
    \E i \in 1..(Len(io[r]) - 1) : io[r][i] = "probe" /\ io[r][i + 1] = "raise"

\* Request r ended at the existence test of the validator.
EndedAtStat(r) == pc[r] = "done" /\ io[r] = <<"open", "write", "stat">>

\* C28: an upload that is missing when validation begins is reported as
\* File.NotFound with no probe attempted, a probe that raises is reported as
\* Audio.PreflightError and as none of the five rule kinds, a probe is attempted
\* only on an existing file, and in both cases the request ends without a
\* conversion or a detector call.
C28_MissingOrUnreadable ==
    \A r \in Requests :
        /\ pf[r] = "File.NotFound" <=> EndedAtStat(r)
        /\ ProbeRaised(r) <=> pf[r] = "Audio.PreflightError"
        /\ ProbeRaised(r) => \A i \in 1..5 : pf[r] # RuleKinds[i]
        /\ pc[r] = "probing" => input_path[r] \in files
        /\ pf[r] \in {"File.NotFound", "Audio.PreflightError"} =>
              /\ pc[r] = "done" /\ resp[r].status # 200
              /\ conv[r] = None /\ det[r] = None
              /\ \A i \in 1..Len(io[r]) : io[r][i] \notin {"normalize", "detect"}

\* C28 witness: one request found its upload missing, another could not be decoded.
C28_Witness ==
    \E r, q \in Requests :
        /\ pf[r] = "File.NotFound" /\ EndedAtStat(r)
        /\ pf[q] = "Audio.PreflightError" /\ ProbeRaised(q)

\* The operations that are stages of a request: saving the upload (its open and
\* its write), the probe of the validator, the conversion, the detector call.
StageOps == {"open", "write", "probe", "normalize", "detect"}

Count(seq, op) == Cardinality({i \in 1..Len(seq) : seq[i] = op})

\* The i-th operation of request r is the exception of a conversion.
ConversionRaise(r, i) == io[r][i] = "raise" /\ i > 1 /\ io[r][i - 1] = "normalize"

AtMostOnce == \A r \in Requests : \A op \in StageOps : Count(io[r], op) <= 1

\* C29 as stated: each stage runs at most once in a request, and after an
\* exception no stage of the request runs.
C29_AsStated ==
    /\ AtMostOnce
    /\ \A r \in Requests : \A i, j \in 1..Len(io[r]) :
          io[r][i] = "raise" /\ i < j => io[r][j] \notin StageOps

\* C29: each stage runs at most once in a request; after an exception other than
\* a conversion's no stage of the request runs and the answer is an error; after
\* the exception of a conversion the only stage that runs is the detector call.
C29_NoRetries ==
    /\ AtMostOnce
    /\ \A r \in Requests : \A i \in 1..Len(io[r]) :
          io[r][i] = "raise" =>
              IF ConversionRaise(r, i)
              THEN \A j \in (i + 1)..Len(io[r]) :
                       io[r][j] \in StageOps => io[r][j] = "detect"
              ELSE /\ \A j \in (i + 1)..Len(io[r]) : io[r][j] \notin StageOps
                   /\ pc[r] = "done" => resp[r].status # 200

\* C29 witness: a request whose conversion raised went on to the detector, whose
\* exception then ended it with an error.
C29_Witness ==
    \E r \in Requests :
        /\ pc[r] = "done" /\ resp[r].status # 200 /\ det[r] = "raised"
        /\ Count(io[r], "raise") = 2 /\ Count(io[r], "detect") = 1
        /\ \E i \in 1..Len(io[r]) : ConversionRaise(r, i)

\* C30: a request whose detector call waits for a pool thread is not answered
\* while it waits, its call eventually runs, and the request is eventually
\* answered.
C30_QueuedEventuallyAnswered ==
    \A r \in Requests :
        /\ [](pc[r] = "queued" => resp[r] = NoResp)
        /\ (pc[r] = "queued") ~> (pc[r] = "running" /\ r \in workers)
        /\ (pc[r] = "queued") ~> (pc[r] = "done" /\ resp[r] # NoResp)

\* C30 witness: every pool thread runs a detector call that can return, and
\* another request waits in the queue, unanswered.
C30_Witness ==
    \E r, q \in Requests :
        /\ r # q /\ Cardinality(workers) = pool_size
        /\ r \in workers /\ det[r] = "running"
        /\ pc[q] = "queued" /\ resp[q] = NoResp

DetectorOver(r) == det[r] \in {"returned", "nothing", "raised"}

\* C31: abandoning a request leaves its running detector call on its pool
\* thread; a thread is given back only by a call that is over, and every call
\* that runs, abandoned or not, eventually is over and has given its thread back.
C31_AbandonedCallCompletes ==
    /\ [][\A r \in Requests :
            /\ pc[r] = "running" /\ pc'[r] = "abandoned"
                  => r \in workers' /\ det'[r] = det[r]
            /\ r \in workers /\ r \notin workers' => DetectorOver(r)']_vars
    /\ \A r \in Requests :
          (pc[r] = "abandoned" /\ r \in workers)
              ~> (r \notin workers /\ DetectorOver(r))
    /\ \A r \in Requests : (r \in workers) ~> (workers = {})

\* C31 witness: the detector call of an abandoned request returned an offset,
\* wrote its output and gave its thread back; the request was never answered.
C31_Witness ==
    \E r \in Requests :
        /\ pc[r] = "abandoned" /\ det[r] = "returned" /\ r \notin workers
        /\ OutputPath(uuid4(r)) \in files /\ resp[r] = NoResp

\* C32: with calls made one after the other, a call of extract_chorus that
\* returns no offset leaves in last_error_reason a non-empty reason written by
\* that call, and it returns rather than raises: its caller sees the None
\* result, whatever raised inside the call.
C32_ReasonLeftByCall ==
    [][\A r \in Requests :
         pc[r] # "done" /\ pc'[r] = "done" /\ result'[r] = Nothing
             => /\ last_error_reason' \notin {None, ""}
                /\ last_error_reason' = own'[r]
                /\ resp'[r] = ExtractionFailed(last_error_reason')
                /\ resp'[r].status # 500]_vars

\* C32 witness: a call failed with one reason, and the call made after it failed
\* with another, which is the reason left in the field.
C32_Witness ==
    \E q, r \in Requests :
        /\ q < r /\ pc[q] = "done" /\ pc[r] = "done"
        /\ result[q] = Nothing /\ result[r] = Nothing
        /\ resp[q].message # resp[r].message
        /\ last_error_reason = resp[r].message /\ own[r] = resp[r].message
        /\ det[r] = "nothing"

\* C33: a step other than a cleanup call removes no upload and no output file
\* of any request; the one file such a step removes is the converted WAV of the
\* request taking the step, a file that request wrote and that is neither its
\* upload nor its output.
C33_OnlyConvertedWavRemoved ==
    [][last'.op # "cleanup" =>
         /\ \A r \in Requests :
               /\ input_path[r] \in files => input_path[r] \in files'
               /\ OutputPath(uuid4(r)) \in files => OutputPath(uuid4(r)) \in files'
         /\ \A f \in files \ files' :
               \E r \in Requests :
                   /\ pc[r] = "resuming" /\ pc'[r] = "done"
                   /\ conv[r] = "created" /\ f = wav_path[r]
                   /\ Made(r, f) \in created
                   /\ f \notin {input_path[r], OutputPath(uuid4(r))}]_vars

\* C33 witness: a request answered with success whose converted WAV is gone
\* while its upload and its output are still there.
C33_Witness ==
    \E r \in Requests :
        /\ pc[r] = "done" /\ resp[r].status = 200 /\ conv[r] = "created"
        /\ wav_path[r] \notin files
        /\ input_path[r] \in files /\ OutputPath(uuid4(r)) \in files

\* The output file of request r is there: download of its identifier succeeds.
Downloadable(r) == OutputPath(uuid4(r)) \in files

\* C34: download(id) returns the file exactly when the output file of id exists
\* and answers not-found otherwise; the output of a request answered with
\* success stays downloadable through every step that is not a cleanup of its
\* identifier; and once it is gone it does not come back.
C34_DownloadUntilCleanup ==
    /\ [](last.op = "download" =>
             /\ last.returned # Nothing <=> OutputPath(last.file_id) \in files
             /\ last.raised <=> OutputPath(last.file_id) \notin files)
    /\ [][\A r \in Requests :
            /\ resp[r].status = 200 /\ Downloadable(r)
                  /\ ~(last'.op = "cleanup" /\ last'.file_id = uuid4(r))
                  => Downloadable(r)'
            /\ resp[r].status = 200 /\ ~Downloadable(r) => ~Downloadable(r)']_vars

====
